---- MODULE Spec2Model ----
(***************************************************************************)
(* duplicacy-util: the run lock (obtainLock), the sequential operation     *)
(* pipeline (performBackup) and the log rotation (rotateLogFiles) of       *)
(* src/duplicacy-util.go.                                                  *)
(*                                                                         *)
(* Several orchestrator processes for the same configuration name share    *)
(* the lock directory and the log directory of one host.  Each process     *)
(* runs main -> obtainLock -> performBackup -> rotateLogFiles and the      *)
(* deferred Unlock / Remove.  A step is one system call on the shared lock *)
(* or log directory, together with the process-local work that follows it, *)
(* or one part of an external invocation: its launch, a line of its        *)
(* output, or its return.                                                  *)
(***************************************************************************)
EXTENDS Integers, Sequences, FiniteSets, TLC

\* ------------------------------------------------------------------ bounds
NProcs == 3          \* orchestrator processes a scheduler may start
NPair == 2           \* processes contending in SpecPair
MaxOps == 2          \* longest StorageOperation list of a phase
MaxDepth == 3        \* largest retention depth (globalLogFileCount)
MaxLen == 2          \* longest previous log, in bytes
MaxKeep == 4         \* longest "keep" option string, in characters
MaxRuns == 2         \* runs the scheduler starts one after the other
MaxOut == 1          \* most lines an external tool prints in one invocation

Procs == 1..NProcs
Bytes == 0..1

\* ------------------------------------------------------------------ state
VARIABLES
    cmdBackup, cmdPrune, cmdCheck,  \* phase selection flags (-b, -p, -c, -a)
    configFile,                     \* the loaded configuration, four lists
    globalLogFileCount,             \* retention depth N
    lockDirOk,                      \* the lock directory can be opened
    sendMail,                       \* the -m flag: mail the results
    debugFlag,                      \* the -d flag: log every command line
    toolLines,                      \* lines the external tool prints, each time it runs
    diskFaults,                     \* file operations on the log directory can fail
    lockFaults,                     \* the lock directory can refuse to unlink the lock file
    staleLock,                      \* a killed run left its lock file (inode 1) behind
    launched,                       \* processes the scheduler starts
    pc,                             \* per process: position in the code
    ret,                            \* per process: obtainLock's return value
    fh,                             \* per process: inode its Flock has open, 0 = none
    locked,                         \* per process: Flock.l, it owns the OS lock
    lockFile,                       \* inode <lockDir>/<name>.lock links to, 0 = absent
    inodes,                         \* number of lock-file inodes created so far
    logFile,                        \* <logDir>/<name>.log
    gzFile,                         \* generation i: <logDir>/<name>.log.<i>.gz
    logRun,                         \* the run whose log <name>.log is
    gzRun,                          \* generation i: the run whose log it holds
    clock,                          \* number of the latest run that opened a log
    runs,                           \* runs the scheduler has started one after the other
    phase, index,                   \* per process: loop position in performBackup
    rotations,                      \* per process: calls of rotateLogFiles
    rotateErr,                      \* per process: rotateLogFiles returned an error
    rotatedFrom,                    \* per process: the log files its rotateLogFiles found
    created,                        \* per process: os.Create of the log succeeded
    invoked,                        \* per process: the Executor calls, in order
    args,                           \* per process: cmdArgs of each Executor call
    failedAt,                       \* per process: number of the failed call, 0 = none
    completed,                      \* per process: "Operations completed" emitted
    panicked,                       \* per process: a runtime panic unwound the run
    deferred,                       \* per process: obtainLock's deferred calls run so far
    exitCode,                       \* per process: code the process ended with, -1 = running
    unlocks,                        \* Unlock calls executed on the host so far
    removeErr,                      \* per process: its os.Remove failed and left the lock file
    tryLock,                        \* per process: what TryLock answered
    calls,                          \* rotateLogFiles calls in a row (SpecRotate)
    emitted,                        \* per process: the logMessage/logError calls, in order
    mailBody,                       \* per process: the mail message body
    console,                        \* per process: the lines written to stdout/stderr
    mailSent,                       \* per process: hand-overs of mailBody to the mailer
    logPos,                         \* per process: offset of its descriptor on <name>.log
    printed,                        \* per process: lines the running tool has printed
    kick,                           \* per process: i of the rename loop of rotateLogFiles
    gzFd,                           \* per process: generation its writer's file is now, 0 = none
    gzOff,                          \* per process: offset of its writer
    gzIn,                           \* per process: bytes the archiver has taken so far
    rdPos,                          \* per process: offset of its reader on <name>.log
    rdBuf,                          \* per process: bytes io.Copy has read and not yet written
    copyErr                         \* per process: how io.Copy failed: "none", "read"

envVars == <<cmdBackup, cmdPrune, cmdCheck, configFile, globalLogFileCount,
             lockDirOk, sendMail, debugFlag, toolLines, diskFaults, lockFaults,
             staleLock, launched, runs>>
lockVars == <<fh, locked, lockFile, inodes, unlocks, removeErr, tryLock>>
logVars == <<logFile, gzFile, logRun, gzRun, clock>>
runVars == <<phase, index, rotations, rotateErr, rotatedFrom, created, invoked,
             args, failedAt, completed, panicked>>
sinkVars == <<emitted, mailBody, console, mailSent>>
gzVars == <<kick, gzFd, gzOff, gzIn, rdPos, rdBuf, copyErr>>
fdVars == <<logPos, printed, gzVars>>
vars == <<envVars, lockVars, logVars, fdVars, runVars, sinkVars, pc, ret, deferred,
          exitCode, calls>>

\* ------------------------------------------------------------------ files
NoFile == [exists |-> FALSE, data |-> <<>>]
File(d) == [exists |-> TRUE, data |-> d]

\* write(2) of bytes at offset pos of a file holding data: it replaces what
\* is there, and a write past the end leaves a hole of zero bytes.
WriteAt(data, pos, bytes) ==
    IF bytes = <<>> THEN data
    ELSE LET end == pos + Len(bytes)
             n == IF Len(data) > end THEN Len(data) ELSE end
         IN [j \in 1..n |-> IF j > pos /\ j <= end THEN bytes[j - pos]
                            ELSE IF j <= Len(data) THEN data[j] ELSE 0]

RECURSIVE SumSeq(_)
SumSeq(s) == IF s = <<>> THEN 0 ELSE Head(s) + SumSeq(Tail(s))

Prefix(s, k) == SubSeq(s, 1, k)

\* compress/gzip: the two magic bytes, the deflate block closed by its
\* end-of-block symbol (256), then the trailer CRC and ISIZE.
GzHeader == <<31, 139>>
GzName == <<78>>
GzNul == <<0>>
GzCrc(d) == (SumSeq(d) + 3 * Len(d)) % 251
\* What compressor.Close hands to the file for the payload d: the data and the
\* end of the stream; the trailer that follows it: checksum and length.
Deflated(d) == d \o <<256>>
Trailer(d) == <<GzCrc(d), Len(d)>>
Compress(d) == GzHeader \o GzName \o GzNul \o Deflated(d) \o Trailer(d)

\* gzip reader: the payload, or an error for a stream that is cut short or
\* whose trailer does not match.
Decompress(f) ==
    IF Len(f) >= 7 /\ Prefix(f, 4) = GzHeader \o GzName \o GzNul /\ f[Len(f) - 2] = 256
    THEN LET d == SubSeq(f, 5, Len(f) - 3) IN
         IF f[Len(f) - 1] = GzCrc(d) /\ f[Len(f)] = Len(d)
         THEN [ok |-> TRUE, data |-> d]
         ELSE [ok |-> FALSE, data |-> <<>>]
    ELSE [ok |-> FALSE, data |-> <<>>]

\* ------------------------------------------------------------------ rotateLogFiles
\* A rename that exchanges the two files (RENAME_EXCHANGE) instead of
\* replacing the target.
Rename_Exchange(gz, i) ==
    IF gz[i].exists THEN [gz EXCEPT ![i + 1] = gz[i], ![i] = gz[i + 1]] ELSE gz

\* os.Rename(logFileRoot.i.gz, logFileRoot.(i+1).gz): replaces the target; a
\* missing source is an error, which the loop ignores.
Rename(gz, i) ==
    IF gz[i].exists THEN [gz EXCEPT ![i + 1] = gz[i], ![i] = NoFile] ELSE gz

\* An open descriptor follows its file through the rename of generation i: to
\* i + 1 when it is the renamed file, to no name when it is the replaced one.
FollowRename(fd, gz, i) ==
    IF gz[i].exists
    THEN [q \in DOMAIN fd |-> IF fd[q] = i THEN i + 1
                              ELSE IF fd[q] = i + 1 THEN 0 ELSE fd[q]]
    ELSE fd

\* The outcomes of an I/O step: it succeeds, or it fails.
Faults == IF diskFaults THEN {"none", "fail"} ELSE {"none"}

\* The outcomes of the unlink of the lock file.
LockFaults == IF lockFaults THEN {"none", "fail"} ELSE {"none"}

\* How much of the sequence s a write gets through: all of it, or, when it
\* fails, nothing or all but the last element (the two extremes).
Cuts(fault, s) ==
    IF fault = "none" THEN {Len(s)}
    ELSE {0, IF Len(s) = 0 THEN 0 ELSE Len(s) - 1}

\* ------------------------------------------------------------------ configuration
Phases == <<"backup", "copy", "prune", "check">>

\* Strings are sequences of characters; a "keep" option is made of these.
Chars == {"7", " ", "\t"}
DefaultKeep == <<"7", " ", "7">>

\* A configuration with nb backup, nc copy, np prune and nk check entries.
Config(nb, nc, np, nk) ==
    [backupInfo |-> [i \in 1..nb |-> [name |-> <<"b", i>>, threads |-> i]],
     copyInfo |-> [i \in 1..nc |-> [from |-> <<"b", i>>, to |-> <<"c", i>>, threads |-> i]],
     pruneInfo |-> [i \in 1..np |-> [storage |-> <<"p", i>>, keep |-> DefaultKeep]],
     checkInfo |-> [i \in 1..nk |-> [storage |-> <<"k", i>>, all |-> (i % 2 = 1)]]]

Info(cfg, ph) ==
    CASE ph = 1 -> cfg.backupInfo
      [] ph = 2 -> cfg.copyInfo
      [] ph = 3 -> cfg.pruneInfo
      [] OTHER -> cfg.checkInfo

\* if cmdBackup { backup loop; copy loop }; if cmdPrune {...}; if cmdCheck {...}
Selected(ph) ==
    CASE ph \in {1, 2} -> cmdBackup
      [] ph = 3 -> cmdPrune
      [] OTHER -> cmdCheck

\* The loop position reached from (ph, i): the next operation of a selected
\* phase, or phase 5 when the four loops are over.
RECURSIVE NextOp(_, _)
NextOp(ph, i) ==
    IF ph > 4 THEN <<5, 1>>
    ELSE IF Selected(ph) /\ i <= Len(Info(configFile, ph)) THEN <<ph, i>>
    ELSE NextOp(ph + 1, 1)

\* strings.Split(s, " "): the pieces of s between single spaces; n spaces give
\* n + 1 pieces, empty ones included, and the empty string gives one empty piece.
RECURSIVE Split(_)
Split(s) ==
    IF \A j \in 1..Len(s) : s[j] # " " THEN <<s>>
    ELSE LET j == CHOOSE j \in 1..Len(s) :
                      s[j] = " " /\ \A h \in 1..(j - 1) : s[h] # " "
         IN <<SubSeq(s, 1, j - 1)>> \o Split(SubSeq(s, j + 1, Len(s)))

\* cmdArgs of operation i of phase ph (lines 230, 243-244, 261-262, 277-278).
CmdArgs(cfg, ph, i) ==
    CASE ph = 1 -> <<"backup", "-storage", cfg.backupInfo[i].name,
                     "-threads", cfg.backupInfo[i].threads, "-stats">>
      [] ph = 2 -> <<"copy", "-threads", cfg.copyInfo[i].threads,
                     "-from", cfg.copyInfo[i].from, "-to", cfg.copyInfo[i].to>>
      [] ph = 3 -> <<"prune", "-all", "-storage", cfg.pruneInfo[i].storage>>
                       \o Split(cfg.pruneInfo[i].keep)
      [] OTHER -> <<"check", "-storage", cfg.checkInfo[i].storage>>
                      \o (IF cfg.checkInfo[i].all THEN <<"-all">> ELSE <<>>)

\* One line of the run log, by its first byte: '#' separator, B/C/P/C
\* narration, E error or "Executing:", x output of the external tool,
\* O "Operations completed".
LineOf(kind) ==
    CASE kind = "sep" -> 35
      [] kind = "begin" -> 66
      [] kind = "backup" -> 66
      [] kind = "copy" -> 67
      [] kind = "prune" -> 80
      [] kind = "check" -> 67
      [] kind = "error" -> 69
      [] kind = "debug" -> 69
      [] kind = "output" -> 120
      [] OTHER -> 79

\* logger.Println on the run log, by a process whose descriptor is at offset
\* pos: the file is opened by os.Create, without O_APPEND.
Println(log, pos, kinds) ==
    IF log.exists
    THEN File(WriteAt(log.data, pos, [j \in 1..Len(kinds) |-> LineOf(kinds[j])]))
    ELSE log


\* ------------------------------------------------------------------ log sink
\* time.Now().Format("15:04:05"): the time-of-day prefix.
TimeOfDay == "HH:MM:SS"

\* logFMessage(w, logger, message): the text appended to mailBody and the line
\* written to w.  text is the message behind the time prefix; mailBody gets
\* text whatever w is, os.Stdout gets text, any other writer the bare message.
logFMessage(w, message) ==
    LET text == <<TimeOfDay, message>> IN
    [mail |-> text,
     line |-> IF w = "stdout" THEN [w |-> w, text |-> text]
              ELSE [w |-> w, text |-> <<message>>]]

logError(message) == [w |-> "stderr", message |-> message]
logMessage(message) == [w |-> "stdout", message |-> message]

\* Process p makes the calls msgs of logMessage / logError, in order.
Emit(p, msgs) ==
    /\ emitted' = [emitted EXCEPT ![p] = @ \o msgs]
    /\ mailBody' = [mailBody EXCEPT ![p] = @ \o
           [j \in 1..Len(msgs) |-> logFMessage(msgs[j].w, msgs[j].message).mail]]
    /\ console' = [console EXCEPT ![p] = @ \o
           [j \in 1..Len(msgs) |-> logFMessage(msgs[j].w, msgs[j].message).line]]
    /\ UNCHANGED mailSent

\* The narration of operation i of phase ph (lines 231, 245, 263, 279); the
\* check loop takes the storage name from pruneInfo.
Narration(cfg, ph, i) ==
    CASE ph = 1 -> <<"Backing up to storage", cfg.backupInfo[i].name,
                     cfg.backupInfo[i].threads>>
      [] ph = 2 -> <<"Copying from storage", cfg.copyInfo[i].from,
                     cfg.copyInfo[i].to, cfg.copyInfo[i].threads>>
      [] ph = 3 -> <<"Pruning storage", cfg.pruneInfo[i].storage>>
      [] OTHER -> <<"Checking storage", cfg.pruneInfo[i].storage>>

\* ------------------------------------------------------------------ obtainLock
\* obtainLock without its "! locked" branch.
AfterTryLock_IgnoresBusy(err, ok) ==
    IF err THEN [pc |-> "exit", ret |-> 201] ELSE [pc |-> "rotate", ret |-> 0]

\* obtainLock going on to performBackup when TryLock returned an error.
AfterTryLock_IgnoresError(err, ok) ==
    IF ~err /\ ~ok THEN [pc |-> "exit", ret |-> 200]
    ELSE [pc |-> "rotate", ret |-> 0]

\* Lines 177-188: what obtainLock does with TryLock's (locked, err).
AfterTryLock(err, ok) ==
    IF err THEN [pc |-> "exit", ret |-> 201]
    ELSE IF ~ok THEN [pc |-> "exit", ret |-> 200]
    ELSE [pc |-> "rotate", ret |-> 0]

\* obtainLock leaving through os.Exit(500) on an error, which skips the defers.
AfterPerformBackup_ExitsOnError(err) ==
    IF err THEN [pc |-> "exit", ret |-> 500]
    ELSE [pc |-> "unlock", ret |-> 0]

\* Lines 192-200: performBackup returned; the deferred Unlock and Remove run
\* before obtainLock hands its value to os.Exit.
AfterPerformBackup(err) ==
    IF err THEN [pc |-> "unlock", ret |-> 500]
    ELSE [pc |-> "unlock", ret |-> 0]

\* Locking by the existence of the file: a lock file that was already there
\* when the run started counts as held.
FlockGranted_ByExistence(p) ==
    /\ ~(staleLock /\ fh[p] = 1)
    /\ \A q \in Procs \ {p} : ~(locked[q] /\ fh[q] = fh[p])

\* A shared lock (LOCK_SH) is granted whoever else holds one.
FlockGranted_Shared(p) == TRUE

\* syscall.Flock(fd, LOCK_EX|LOCK_NB) by p: granted unless another process
\* holds the lock on the same inode.
FlockGranted(p) == \A q \in Procs \ {p} : ~(locked[q] /\ fh[q] = fh[p])

\* TryLock, first half: setFh, os.OpenFile(path, O_CREATE|O_RDONLY).
Open(p) ==
    /\ p \in launched
    /\ pc[p] = "start"
    /\ IF ~lockDirOk
       THEN /\ pc' = [pc EXCEPT ![p] = AfterTryLock(TRUE, FALSE).pc]
            /\ ret' = [ret EXCEPT ![p] = AfterTryLock(TRUE, FALSE).ret]
            /\ tryLock' = [tryLock EXCEPT ![p] = "error"]
            /\ Emit(p, <<logError(<<"Error: ", "open">>)>>)
            /\ UNCHANGED <<fh, lockFile, inodes>>
       ELSE /\ pc' = [pc EXCEPT ![p] = "flock"]
            /\ lockFile' = IF lockFile = 0 THEN inodes + 1 ELSE lockFile
            /\ inodes' = IF lockFile = 0 THEN inodes + 1 ELSE inodes
            /\ fh' = [fh EXCEPT ![p] = lockFile']
            /\ UNCHANGED <<ret, tryLock, sinkVars>>
    /\ UNCHANGED <<envVars, locked, unlocks, removeErr, logVars, fdVars, runVars, deferred, exitCode,
                   calls>>

\* TryLock, second half: the non-blocking flock, and obtainLock's branch on it.
Flock(p) ==
    /\ pc[p] = "flock"
    /\ locked' = [locked EXCEPT ![p] = FlockGranted(p)]
    /\ tryLock' = [tryLock EXCEPT ![p] = IF FlockGranted(p) THEN "locked" ELSE "busy"]
    /\ pc' = [pc EXCEPT ![p] = AfterTryLock(FALSE, FlockGranted(p)).pc]
    /\ ret' = [ret EXCEPT ![p] = AfterTryLock(FALSE, FlockGranted(p)).ret]
    /\ Emit(p, IF FlockGranted(p) THEN <<>>
               ELSE <<logError(<<"Error: ", "unable to obtain lock">>)>>)
    /\ UNCHANGED <<envVars, fh, lockFile, inodes, unlocks, removeErr, logVars, fdVars, runVars,
                   deferred, exitCode, calls>>

\* defer fileLock.Unlock(): LOCK_UN and close of the handle.
Unlock(p) ==
    /\ pc[p] = "unlock"
    /\ locked' = [locked EXCEPT ![p] = FALSE]
    /\ fh' = [fh EXCEPT ![p] = 0]
    /\ unlocks' = unlocks + 1
    /\ deferred' = [deferred EXCEPT ![p] = Append(@, "Unlock")]
    /\ pc' = [pc EXCEPT ![p] = "remove"]
    /\ UNCHANGED <<envVars, lockFile, inodes, removeErr, tryLock, logVars, fdVars, runVars,
                   sinkVars, ret, exitCode, calls>>

\* defer os.Remove(lockfile) (lines 190-192): unlinks whatever the path names
\* now, or fails and leaves it; the error is ignored either way.
Remove(p) ==
    /\ pc[p] = "remove"
    /\ \E fault \in LockFaults :
         /\ lockFile' = IF fault = "none" THEN 0 ELSE lockFile
         /\ removeErr' = [removeErr EXCEPT ![p] = fault = "fail" /\ lockFile # 0]
    /\ deferred' = [deferred EXCEPT ![p] = Append(@, "Remove")]
    /\ pc' = [pc EXCEPT ![p] = "exit"]
    /\ UNCHANGED <<envVars, fh, locked, inodes, unlocks, tryLock, logVars, fdVars, runVars,
                   sinkVars, ret, exitCode, calls>>

\* os.Exit(obtainLock()), or the runtime's exit after a panic has unwound:
\* the deferred calls have run, the runtime writes its panic report to stderr
\* and exits with 2.  The kernel closes the process's descriptors, which drops
\* a flock it still owns.
Exit(p) ==
    /\ pc[p] = "exit"
    /\ console' = [console EXCEPT ![p] =
                      IF panicked[p]
                      THEN Append(@, [w |-> "stderr",
                                      text |-> <<(<<"panic: ",
                                                   "index out of range">>)>>])
                      ELSE @]
    /\ exitCode' = [exitCode EXCEPT ![p] = ret[p]]
    /\ fh' = [fh EXCEPT ![p] = 0]
    /\ locked' = [locked EXCEPT ![p] = FALSE]
    /\ pc' = [pc EXCEPT ![p] = "done"]
    /\ UNCHANGED <<envVars, lockFile, inodes, unlocks, removeErr, tryLock, logVars, fdVars, runVars,
                   emitted, mailBody, mailSent, ret, deferred, calls>>

\* ------------------------------------------------------------------ performBackup
\* performBackup dropping rotateLogFiles' error.
AfterRotate_IgnoresError(err) == [pc |-> "create", ret |-> 0]

\* Lines 207-209: performBackup returns rotateLogFiles' error, else goes on.
AfterRotate(err) ==
    IF err THEN AfterPerformBackup(TRUE) ELSE [pc |-> "create", ret |-> 0]

\* The loops logging an Executor error and going on.
AfterExecutor_Continues(ph, i, err) ==
    [returns |-> FALSE, pos |-> NextOp(ph, i + 1)]

\* Lines 235-238 (and 249, 266, 282): an Executor error ends performBackup;
\* otherwise the loops go on from the next operation.
AfterExecutor(ph, i, err) ==
    IF err THEN [returns |-> TRUE, pos |-> <<ph, i>>]
    ELSE [returns |-> FALSE, pos |-> NextOp(ph, i + 1)]

\* Line 279 indexes pruneInfo with the check loop's i: past the end of
\* pruneInfo this is a runtime panic (index out of range).
NarrationPanics(ph, i) == ph = 4 /\ i > Len(configFile.pruneInfo)

\* The process writes the lines kinds to the run log at its own offset.
LogLines(p, kinds) ==
    /\ logFile' = Println(logFile, logPos[p], kinds)
    /\ logPos' = [logPos EXCEPT ![p] = @ + Len(kinds)]

\* The process's writer puts bytes at its offset of the file it has open; a
\* file that lost its name takes them out of sight.
Written(gz, fd, off, bytes) ==
    IF fd = 0 THEN gz ELSE [gz EXCEPT ![fd].data = WriteAt(@, off, bytes)]

\* rotateLogFiles is entered: nothing renamed yet, the loop starts at N - 2.
EnterRotate(p) ==
    /\ rotations' = [rotations EXCEPT ![p] = @ + 1]
    /\ rotateErr' = [rotateErr EXCEPT ![p] = FALSE]
    /\ rotatedFrom' = [rotatedFrom EXCEPT ![p] = [log |-> logFile, gz |-> gzFile]]
    /\ kick' = [kick EXCEPT ![p] = globalLogFileCount - 2]

\* rotateLogFiles returns err to performBackup (lines 207-209); its writer, if
\* any, is closed.
Return(p, err) ==
    /\ rotateErr' = [rotateErr EXCEPT ![p] = err]
    /\ pc' = [pc EXCEPT ![p] = AfterRotate(err).pc]
    /\ ret' = [ret EXCEPT ![p] = AfterRotate(err).ret]
    /\ gzFd' = [gzFd EXCEPT ![p] = 0]
    /\ gzIn' = [gzIn EXCEPT ![p] = <<>>]
    /\ rdPos' = [rdPos EXCEPT ![p] = 0]
    /\ rdBuf' = [rdBuf EXCEPT ![p] = <<>>]
    /\ copyErr' = [copyErr EXCEPT ![p] = "none"]

\* Lines 206-207: "Rotating log files" goes to stdout with fmt.Println, not
\* through the log sink, and rotateLogFiles is called.
Rotate(p) ==
    /\ pc[p] = "rotate"
    /\ console' = [console EXCEPT ![p] =
                      Append(@, [w |-> "stdout",
                                 text |-> <<TimeOfDay, <<"Rotating log files">>>>])]
    /\ EnterRotate(p)
    /\ pc' = [pc EXCEPT ![p] = "rename"]
    /\ UNCHANGED <<envVars, lockVars, logVars, logPos, printed, gzFd, gzOff, gzIn,
                   rdBuf, rdPos, copyErr, phase, index, created, invoked, args, failedAt,
                   completed, panicked, emitted, mailBody, mailSent, ret, deferred,
                   exitCode, calls>>

\* Lines 302-305, one pass of the loop: os.Rename of generation i onto i + 1,
\* or its failure, which is ignored.
Kick(p) ==
    /\ pc[p] = "rename"
    /\ kick[p] >= 1
    /\ \E fault \in Faults :
         IF fault = "none"
         THEN /\ gzFile' = Rename(gzFile, kick[p])
              /\ gzRun' = Rename(gzRun, kick[p])
              /\ gzFd' = FollowRename(gzFd, gzFile, kick[p])
         ELSE UNCHANGED <<gzFile, gzRun, gzFd>>
    /\ kick' = [kick EXCEPT ![p] = @ - 1]
    /\ UNCHANGED <<envVars, lockVars, logFile, logRun, clock, logPos, printed, gzOff,
                   gzIn, rdBuf, rdPos, copyErr, runVars, sinkVars, pc, ret, deferred, exitCode,
                   calls>>

\* Lines 308-310: the loop is over; os.Stat of the log, return nil without it.
StatLog(p) ==
    /\ pc[p] = "rename"
    /\ kick[p] < 1
    /\ IF logFile.exists
       THEN /\ pc' = [pc EXCEPT ![p] = "open"]
            /\ UNCHANGED <<rotateErr, ret, gzFd, gzIn, rdBuf, rdPos, copyErr>>
       ELSE Return(p, FALSE)
    /\ UNCHANGED <<envVars, lockVars, logVars, logPos, printed, kick, gzOff, phase, index,
                   rotations, rotatedFrom, created, invoked, args, failedAt,
                   completed, panicked, sinkVars, deferred, exitCode, calls>>

\* Lines 313-317: os.Open of the log.
OpenLog(p) ==
    /\ pc[p] = "open"
    /\ \E fault \in Faults :
         IF fault = "none"
         THEN /\ pc' = [pc EXCEPT ![p] = "gzcreate"]
              /\ UNCHANGED <<rotateErr, ret, gzFd, gzIn, rdBuf, rdPos, copyErr, sinkVars>>
         ELSE /\ Emit(p, <<logError(<<"Error: ", "open">>)>>)
              /\ Return(p, TRUE)
    /\ UNCHANGED <<envVars, lockVars, logVars, logPos, printed, kick, gzOff, phase, index,
                   rotations, rotatedFrom, created, invoked, args, failedAt,
                   completed, panicked, deferred, exitCode, calls>>

\* Lines 319-324: os.Create of <file.log.1.gz>, which empties an existing file
\* and keeps it the same file for whoever has it open.
CreateGz(p) ==
    /\ pc[p] = "gzcreate"
    /\ \E fault \in Faults :
         IF fault = "none"
         THEN /\ gzFile' = [gzFile EXCEPT ![1] = File(<<>>)]
              /\ gzRun' = [gzRun EXCEPT ![1] = logRun]
              /\ gzFd' = [gzFd EXCEPT ![p] = 1]
              /\ gzOff' = [gzOff EXCEPT ![p] = 0]
              /\ pc' = [pc EXCEPT ![p] = "read"]
              /\ UNCHANGED <<rotateErr, ret, gzIn, rdBuf, rdPos, copyErr, sinkVars>>
         ELSE /\ Emit(p, <<logError(<<"Error: ", "create">>)>>)
              /\ Return(p, TRUE)
              /\ UNCHANGED <<gzFile, gzRun, gzOff>>
    /\ UNCHANGED <<envVars, lockVars, logFile, logRun, clock, logPos, printed, kick,
                   phase, index, rotations, rotatedFrom, created, invoked, args, failedAt,
                   completed, panicked, deferred, exitCode, calls>>

\* io.Copy, a Read of the log (line 331): what the log holds behind the
\* reader's offset goes to archiver.Write, which starts the stream with the
\* header the first time and afterwards only feeds the compressor.  Nothing
\* left ends the copy; an error ends it too (lines 331-334).  When the copy
\* is over the deferred archiver.Close() starts the stream if nothing was
\* written, and ends it.
ReadLog(p) ==
    /\ pc[p] = "read"
    /\ \E fault \in Faults :
         IF fault = "fail"
         THEN /\ copyErr' = [copyErr EXCEPT ![p] = "read"]
              /\ Emit(p, <<logError(<<"Error: ", "read">>)>>)
              /\ pc' = [pc EXCEPT ![p] = IF gzIn[p] = <<>> THEN "write" ELSE "gzclose"]
              /\ UNCHANGED <<rdPos, rdBuf, gzIn, gzRun>>
         ELSE LET c == IF rdPos[p] < Len(logFile.data)
                       THEN SubSeq(logFile.data, rdPos[p] + 1, Len(logFile.data))
                       ELSE <<>>
              IN /\ rdPos' = [rdPos EXCEPT ![p] = @ + Len(c)]
                 /\ IF gzIn[p] = <<>>
                    THEN /\ rdBuf' = [rdBuf EXCEPT ![p] = c]
                         /\ pc' = [pc EXCEPT ![p] = "write"]
                         /\ UNCHANGED gzIn
                    ELSE /\ gzIn' = [gzIn EXCEPT ![p] = @ \o c]
                         /\ pc' = [pc EXCEPT ![p] = IF c = <<>> THEN "gzclose" ELSE "read"]
                         /\ UNCHANGED rdBuf
                 /\ gzRun' = IF gzFd[p] = 0 THEN gzRun
                             ELSE [gzRun EXCEPT ![gzFd[p]] = logRun]
                 /\ UNCHANGED <<copyErr, sinkVars>>
    /\ UNCHANGED <<envVars, lockVars, logFile, gzFile, logRun, clock, logPos, printed,
                   kick, gzFd, gzOff, runVars, ret, deferred, exitCode, calls>>

\* A write of the archiver has failed.  Inside io.Copy (bytes are waiting in
\* rdBuf) the copy ends with the error, which is logged and returned (lines
\* 331-334), and the deferred archiver.Close() writes nothing more.  Inside
\* the deferred archiver.Close() the error is dropped, and the function
\* returns io.Copy's error or nil (lines 333, 336).
Abort(p) ==
    /\ IF rdBuf[p] # <<>>
       THEN /\ Emit(p, <<logError(<<"Error: ", "write">>)>>)
            /\ Return(p, TRUE)
       ELSE /\ Return(p, copyErr[p] # "none")
            /\ UNCHANGED sinkVars
    /\ gzOff' = [gzOff EXCEPT ![p] = 0]

\* One Write call of the archiver on its file: all the bytes and on to the
\* next call, the compressor holding the bytes taken and io.Copy the bytes
\* waiting, or a part of the bytes and the failure.
WriteCall(p, bytes, next, taken, waiting) ==
    \E fault \in Faults :
      \E k \in Cuts(fault, bytes) :
        /\ gzFile' = Written(gzFile, gzFd[p], gzOff[p], Prefix(bytes, k))
        /\ IF fault = "fail"
           THEN Abort(p)
           ELSE /\ gzOff' = [gzOff EXCEPT ![p] = @ + k]
                /\ pc' = [pc EXCEPT ![p] = next]
                /\ gzIn' = [gzIn EXCEPT ![p] = taken]
                /\ rdBuf' = [rdBuf EXCEPT ![p] = waiting]
                /\ UNCHANGED <<rotateErr, ret, gzFd, rdPos, copyErr, sinkVars>>

\* The archiver starts the stream, in the first archiver.Write of io.Copy
\* (line 331) or in the deferred archiver.Close() (line 329) when nothing was
\* written: the write of the header.
WriteHeader(p) ==
    /\ pc[p] = "write"
    /\ WriteCall(p, GzHeader, "gzname", gzIn[p], rdBuf[p])
    /\ UNCHANGED <<envVars, lockVars, logFile, logRun, gzRun, clock, logPos, printed,
                   kick, phase, index, rotations, rotatedFrom, created, invoked, args,
                   failedAt, completed, panicked, deferred, exitCode, calls>>

\* The write of archiver.Name (line 328) behind the header.
WriteName(p) ==
    /\ pc[p] = "gzname"
    /\ WriteCall(p, GzName, "gznul", gzIn[p], rdBuf[p])
    /\ UNCHANGED <<envVars, lockVars, logFile, logRun, gzRun, clock, logPos, printed,
                   kick, phase, index, rotations, rotatedFrom, created, invoked, args,
                   failedAt, completed, panicked, deferred, exitCode, calls>>

\* The write of the byte that ends the name.  The compressor then takes the
\* bytes of the first archiver.Write and keeps them, and the copy reads
\* again; in archiver.Close() the end of the stream is next.
WriteNul(p) ==
    /\ pc[p] = "gznul"
    /\ WriteCall(p, GzNul, IF rdBuf[p] # <<>> THEN "read" ELSE "gzclose", rdBuf[p], <<>>)
    /\ UNCHANGED <<envVars, lockVars, logFile, logRun, gzRun, clock, logPos, printed,
                   kick, phase, index, rotations, rotatedFrom, created, invoked, args,
                   failedAt, completed, panicked, deferred, exitCode, calls>>

\* The deferred archiver.Close() (line 329), compressor.Close: the write of
\* the data the compressor has kept and of the end of the stream.
CloseGz(p) ==
    /\ pc[p] = "gzclose"
    /\ WriteCall(p, Deflated(gzIn[p]), "gztrailer", gzIn[p], rdBuf[p])
    /\ UNCHANGED <<envVars, lockVars, logFile, logRun, gzRun, clock, logPos, printed,
                   kick, phase, index, rotations, rotatedFrom, created, invoked, args,
                   failedAt, completed, panicked, deferred, exitCode, calls>>

\* The deferred archiver.Close() (line 329), the write of the trailer, and
\* the deferred writer.Close() (line 325); their errors are dropped, and the
\* function returns io.Copy's error or nil (lines 333, 336).
WriteTrailer(p) ==
    /\ pc[p] = "gztrailer"
    /\ \E fault \in Faults :
         \E k \in Cuts(fault, Trailer(gzIn[p])) :
           gzFile' = Written(gzFile, gzFd[p], gzOff[p], Prefix(Trailer(gzIn[p]), k))
    /\ gzOff' = [gzOff EXCEPT ![p] = 0]
    /\ Return(p, copyErr[p] # "none")
    /\ UNCHANGED <<envVars, lockVars, logFile, logRun, gzRun, clock, logPos, printed,
                   kick, phase, index, rotations, rotatedFrom, created, invoked, args,
                   failedAt, completed, panicked, sinkVars, deferred, exitCode,
                   calls>>

\* Lines 212-216: os.Create creates the run log or empties the one there is.
CreateLog(p) ==
    /\ pc[p] = "create"
    /\ \E ok \in BOOLEAN :
         IF ok
         THEN /\ logFile' = File(<<>>)
              /\ logPos' = [logPos EXCEPT ![p] = 0]
              /\ logRun' = File(clock + 1)
              /\ clock' = clock + 1
              /\ created' = [created EXCEPT ![p] = TRUE]
              /\ pc' = [pc EXCEPT ![p] = "begin"]
              /\ UNCHANGED <<ret, sinkVars>>
         ELSE /\ pc' = [pc EXCEPT ![p] = AfterPerformBackup(TRUE).pc]
              /\ ret' = [ret EXCEPT ![p] = AfterPerformBackup(TRUE).ret]
              /\ Emit(p, <<logError(<<"Error: ", "create">>)>>)
              /\ UNCHANGED <<logFile, logPos, logRun, clock, created>>
    /\ UNCHANGED <<envVars, lockVars, gzFile, gzRun, printed, gzVars, phase, index,
                   rotations, rotateErr, rotatedFrom, invoked, args, failedAt,
                   completed, panicked, deferred, exitCode, calls>>

\* Lines 217-221: the first line of the run log; the loops start.
Beginning(p) ==
    /\ pc[p] = "begin"
    /\ LogLines(p, <<"begin">>)
    /\ Emit(p, <<logMessage(<<"Beginning backup on">>)>>)
    /\ phase' = [phase EXCEPT ![p] = NextOp(1, 1)[1]]
    /\ index' = [index EXCEPT ![p] = NextOp(1, 1)[2]]
    /\ pc' = [pc EXCEPT ![p] = "run"]
    /\ UNCHANGED <<envVars, lockVars, gzFile, logRun, gzRun, clock, printed, gzVars,
                   rotations, rotateErr, rotatedFrom, created, invoked, args,
                   failedAt, completed, panicked, ret, deferred, exitCode, calls>>

\* The separator line that opens a loop pass (lines 229, 242, 260, 276) and
\* the completion summary (line 292).
Separator(p) ==
    /\ pc[p] = "run"
    /\ LogLines(p, <<"sep">>)
    /\ pc' = [pc EXCEPT ![p] = IF phase[p] = 5 THEN "summary" ELSE "narrate"]
    /\ UNCHANGED <<envVars, lockVars, gzFile, logRun, gzRun, clock, printed, gzVars,
                   runVars, sinkVars, ret, deferred, exitCode, calls>>

\* The arguments and the narration of a loop pass (lines 230-232, 243-246,
\* 261-263, 277-279); line 279 can panic instead.
Narrate(p) ==
    /\ pc[p] = "narrate"
    /\ IF NarrationPanics(phase[p], index[p])
       THEN /\ panicked' = [panicked EXCEPT ![p] = TRUE]
            /\ pc' = [pc EXCEPT ![p] = "unlock"]
            /\ ret' = [ret EXCEPT ![p] = 2]
            /\ UNCHANGED <<logFile, logPos, sinkVars>>
       ELSE /\ LogLines(p, <<Phases[phase[p]]>>)
            /\ Emit(p, <<logMessage(Narration(configFile, phase[p], index[p]))>>)
            /\ pc' = [pc EXCEPT ![p] = "exec"]
            /\ UNCHANGED <<panicked, ret>>
    /\ UNCHANGED <<envVars, lockVars, gzFile, logRun, gzRun, clock, printed, gzVars,
                   phase, index, rotations, rotateErr, rotatedFrom, created, invoked,
                   args, failedAt, completed, deferred, exitCode, calls>>

\* Executor is called, the external tool starts; with -d the command line is
\* logged first (lines 233-234, 247-248, 264-265, 280-281).
ExecOperation(p) ==
    /\ pc[p] = "exec"
    /\ invoked' = [invoked EXCEPT ![p] = Append(@, <<phase[p], index[p]>>)]
    /\ args' = [args EXCEPT ![p] = Append(@, CmdArgs(configFile, phase[p], index[p]))]
    /\ Emit(p, IF debugFlag
               THEN <<logMessage(<<"Executing: ",
                                   CmdArgs(configFile, phase[p], index[p])>>)>>
               ELSE <<>>)
    /\ LogLines(p, IF debugFlag THEN <<"debug">> ELSE <<>>)
    /\ pc' = [pc EXCEPT ![p] = "wait"]
    /\ UNCHANGED <<envVars, lockVars, gzFile, logRun, gzRun, clock, printed, gzVars,
                   phase, index, rotations, rotateErr, rotatedFrom, created, failedAt,
                   completed, panicked, ret, deferred, exitCode, calls>>

\* The external tool prints a line while it runs; Executor hands it to anon,
\* which writes it to the run log (lines 224, 234).
ToolPrints(p) ==
    /\ pc[p] = "wait"
    /\ printed[p] < toolLines
    /\ printed' = [printed EXCEPT ![p] = @ + 1]
    /\ LogLines(p, <<"output">>)
    /\ UNCHANGED <<envVars, lockVars, gzFile, logRun, gzRun, clock, gzVars, runVars,
                   sinkVars, pc, ret, deferred, exitCode, calls>>

\* The external tool ends and Executor returns: on an error the error line
\* and the return, else the next pass (lines 234-238, 248-252, 265-269,
\* 281-285).
ExecutorReturns(p) ==
    /\ pc[p] = "wait"
    /\ printed[p] = toolLines
    /\ printed' = [printed EXCEPT ![p] = 0]
    /\ \E err \in BOOLEAN :
         LET a == AfterExecutor(phase[p], index[p], err) IN
         /\ failedAt' = [failedAt EXCEPT ![p] = IF err THEN Len(invoked[p]) ELSE @]
         /\ Emit(p, IF err THEN <<logError(<<"Error executing command: ">>)>>
                    ELSE <<>>)
         /\ LogLines(p, IF err THEN <<"error">> ELSE <<>>)
         /\ phase' = [phase EXCEPT ![p] = a.pos[1]]
         /\ index' = [index EXCEPT ![p] = a.pos[2]]
         /\ pc' = [pc EXCEPT ![p] =
                     IF a.returns THEN AfterPerformBackup(TRUE).pc ELSE "run"]
         /\ ret' = [ret EXCEPT ![p] =
                      IF a.returns THEN AfterPerformBackup(TRUE).ret ELSE @]
    /\ UNCHANGED <<envVars, lockVars, gzFile, logRun, gzRun, clock, gzVars,
                   rotations, rotateErr, rotatedFrom, created, invoked, args,
                   completed, panicked, deferred, exitCode, calls>>

\* Line 293: the completion summary; performBackup returns nil (line 295).
OperationsCompleted(p) ==
    /\ pc[p] = "summary"
    /\ LogLines(p, <<"done">>)
    /\ completed' = [completed EXCEPT ![p] = TRUE]
    /\ Emit(p, <<logMessage(<<"Operations completed in">>)>>)
    /\ pc' = [pc EXCEPT ![p] = AfterPerformBackup(FALSE).pc]
    /\ ret' = [ret EXCEPT ![p] = AfterPerformBackup(FALSE).ret]
    /\ UNCHANGED <<envVars, lockVars, gzFile, logRun, gzRun, clock, printed, gzVars,
                   phase, index, rotations, rotateErr, rotatedFrom, created, invoked,
                   args, failedAt, panicked, deferred, exitCode, calls>>

\* ------------------------------------------------------------------ specifications
Logs == UNION {[1..n -> Bytes] : n \in 0..MaxLen}
Configs == {Config(nb, nc, np, nk) : nb \in 0..MaxOps, nc \in 0..MaxOps,
                                     np \in 0..MaxOps, nk \in 0..MaxOps}

\* Generations a depth-n history can hold: indices 1..n-1, gaps allowed.
Generations(n, old) ==
    {g \in [1..MaxDepth -> {NoFile} \cup {File(Compress(d)) : d \in old}] :
        \A i \in 1..MaxDepth : i > n - 1 => g[i] = NoFile}

\* Line 126: main's first message, emitted before obtainLock is called.
Running == logMessage(<<"duplicacy-util running">>)

\* The files of the log directory hold the logs of earlier runs, a lower
\* index a later run; run numbers go up with time.
InitRuns ==
    /\ logRun = IF logFile.exists THEN File(MaxDepth + 1) ELSE NoFile
    /\ gzRun = [i \in 1..MaxDepth |->
                   IF gzFile[i].exists THEN File(MaxDepth + 1 - i) ELSE NoFile]
    /\ clock = MaxDepth + 1
    /\ runs = 1

InitProcs ==
    /\ pc = [p \in Procs |-> "start"]
    /\ ret = [p \in Procs |-> 0]
    /\ fh = [p \in Procs |-> 0]
    /\ locked = [p \in Procs |-> FALSE]
    /\ tryLock = [p \in Procs |-> "none"]
    /\ unlocks = 0
    /\ removeErr = [p \in Procs |-> FALSE]
    /\ phase = [p \in Procs |-> 1]
    /\ index = [p \in Procs |-> 1]
    /\ rotations = [p \in Procs |-> 0]
    /\ rotateErr = [p \in Procs |-> FALSE]
    /\ rotatedFrom = [p \in Procs |->
                        [log |-> NoFile, gz |-> [i \in 1..MaxDepth |-> NoFile]]]
    /\ created = [p \in Procs |-> FALSE]
    /\ invoked = [p \in Procs |-> <<>>]
    /\ args = [p \in Procs |-> <<>>]
    /\ failedAt = [p \in Procs |-> 0]
    /\ completed = [p \in Procs |-> FALSE]
    /\ panicked = [p \in Procs |-> FALSE]
    /\ deferred = [p \in Procs |-> <<>>]
    /\ exitCode = [p \in Procs |-> -1]
    /\ calls = 0
    /\ emitted = [p \in Procs |-> <<Running>>]
    /\ mailBody = [p \in Procs |-> <<logFMessage(Running.w, Running.message).mail>>]
    /\ console = [p \in Procs |-> <<logFMessage(Running.w, Running.message).line>>]
    /\ mailSent = [p \in Procs |-> 0]
    /\ logPos = [p \in Procs |-> 0]
    /\ printed = [p \in Procs |-> 0]
    /\ kick = [p \in Procs |-> 0]
    /\ gzFd = [p \in Procs |-> 0]
    /\ gzOff = [p \in Procs |-> 0]
    /\ gzIn = [p \in Procs |-> <<>>]
    /\ rdPos = [p \in Procs |-> 0]
    /\ rdBuf = [p \in Procs |-> <<>>]
    /\ copyErr = [p \in Procs |-> "none"]

\* main got past its argument checks: at least one phase is selected.
InitFlags ==
    /\ cmdBackup \in BOOLEAN
    /\ cmdPrune \in BOOLEAN
    /\ cmdCheck \in BOOLEAN
    /\ cmdBackup \/ cmdPrune \/ cmdCheck

\* One orchestrator run, any configuration and phase selection, started with
\* -m: the program declares the flag (lines 44, 73) and never reads it, so a
\* run without it takes the same steps.
Init ==
    /\ InitProcs
    /\ InitFlags
    /\ configFile \in Configs
    /\ globalLogFileCount = 3
    /\ lockDirOk \in BOOLEAN
    /\ sendMail = TRUE
    /\ debugFlag \in BOOLEAN
    /\ toolLines \in {0, MaxOut}
    /\ diskFaults = TRUE
    /\ lockFaults = TRUE
    /\ launched = {1}
    /\ staleLock = FALSE
    /\ lockFile = 0
    /\ inodes = 0
    /\ logFile \in {NoFile, File(<<1>>)}
    /\ gzFile = [i \in 1..MaxDepth |-> NoFile]
    /\ InitRuns

Step(p) ==
    \/ Open(p)
    \/ Flock(p)
    \/ Rotate(p)
    \/ Kick(p)
    \/ StatLog(p)
    \/ OpenLog(p)
    \/ CreateGz(p)
    \/ ReadLog(p)
    \/ WriteHeader(p)
    \/ WriteName(p)
    \/ WriteNul(p)
    \/ CloseGz(p)
    \/ WriteTrailer(p)
    \/ CreateLog(p)
    \/ Beginning(p)
    \/ Separator(p)
    \/ Narrate(p)
    \/ ExecOperation(p)
    \/ ToolPrints(p)
    \/ ExecutorReturns(p)
    \/ OperationsCompleted(p)
    \/ Unlock(p)
    \/ Remove(p)
    \/ Exit(p)

Next == \E p \in Procs : Step(p)

Spec == Init /\ [][Next]_vars

\* n processes started for the same configuration, which holds one backup
\* storage or one check storage; with stale, the lock file is there, left by
\* a killed run; with faulty, the unlink of the lock file and the file
\* operations on the log directory can fail; logs are the states name.log can be in at the start.
\* The external tool prints one line each time it runs.
InitContend(n, stale, faulty, logs) ==
    /\ InitProcs
    /\ cmdBackup = TRUE
    /\ cmdPrune = FALSE
    /\ cmdCheck = TRUE
    /\ configFile \in {Config(1, 0, 0, 0), Config(0, 0, 0, 1)}
    /\ globalLogFileCount = 3
    /\ lockDirOk \in BOOLEAN
    /\ sendMail = TRUE
    /\ debugFlag = FALSE
    /\ toolLines = 1
    /\ diskFaults = faulty
    /\ lockFaults = faulty
    /\ launched = 1..n
    /\ staleLock = stale
    /\ lockFile = IF staleLock THEN 1 ELSE 0
    /\ inodes = lockFile
    /\ logFile \in logs
    /\ gzFile = [i \in 1..MaxDepth |-> NoFile]
    /\ InitRuns

\* Three processes on a directory without faults and without a log: the
\* schedule of three that has two of them hold the lock.
InitLock == InitContend(NProcs, FALSE, FALSE, {NoFile})
SpecLock == InitLock /\ [][Next]_vars

\* Two processes, any fault, with or without a log of an earlier run.
InitPair == InitContend(NPair, FALSE, TRUE, {NoFile, File(<<1>>)})
SpecPair == InitPair /\ [][Next]_vars

\* The same on a lock directory that holds a stale lock file.
InitStale == InitContend(NPair, TRUE, TRUE, {NoFile, File(<<1>>)})
SpecStale == InitStale /\ [][Next]_vars

\* rotateLogFiles called again and again on a log directory, nothing else
\* writing to it.
OldLogs == {<<>>, <<1>>}

InitRotate ==
    /\ InitProcs
    /\ cmdBackup = TRUE
    /\ cmdPrune = FALSE
    /\ cmdCheck = FALSE
    /\ configFile = Config(1, 0, 0, 0)
    /\ globalLogFileCount \in 1..MaxDepth
    /\ lockDirOk = TRUE
    /\ sendMail = FALSE
    /\ debugFlag = FALSE
    /\ toolLines = MaxOut
    /\ diskFaults = TRUE
    /\ lockFaults = FALSE
    /\ launched = {}
    /\ staleLock = FALSE
    /\ lockFile = 0
    /\ inodes = 0
    /\ logFile \in {NoFile} \cup {File(d) : d \in Logs}
    /\ gzFile \in Generations(globalLogFileCount, OldLogs)
    /\ InitRuns

RotateCall ==
    /\ pc[1] \in {"start", "create", "unlock"}
    /\ calls <= MaxDepth
    /\ calls' = calls + 1
    /\ EnterRotate(1)
    /\ pc' = [pc EXCEPT ![1] = "rename"]
    /\ UNCHANGED <<envVars, lockVars, logVars, logPos, printed, gzFd, gzOff, gzIn,
                   rdBuf, rdPos, copyErr, phase, index, created, invoked, args, failedAt,
                   completed, panicked, sinkVars, ret, deferred, exitCode>>

NextRotate ==
    \/ RotateCall
    \/ Kick(1)
    \/ StatLog(1)
    \/ OpenLog(1)
    \/ CreateGz(1)
    \/ ReadLog(1)
    \/ WriteHeader(1)
    \/ WriteName(1)
    \/ WriteNul(1)
    \/ CloseGz(1)
    \/ WriteTrailer(1)

SpecRotate == InitRotate /\ [][NextRotate]_vars

\* One run that prunes one storage, the "keep" option being any string.
KeepStrings == UNION {[1..n -> Chars] : n \in 0..MaxKeep}

InitArgs ==
    /\ InitProcs
    /\ cmdBackup = FALSE
    /\ cmdPrune = TRUE
    /\ cmdCheck = FALSE
    /\ configFile \in {[Config(0, 0, 1, 0) EXCEPT !.pruneInfo[1].keep = k] :
                          k \in KeepStrings}
    /\ globalLogFileCount = 3
    /\ lockDirOk = TRUE
    /\ sendMail = FALSE
    /\ debugFlag \in BOOLEAN
    /\ toolLines \in 0..MaxOut
    /\ diskFaults = TRUE
    /\ lockFaults = FALSE
    /\ launched = {1}
    /\ staleLock = FALSE
    /\ lockFile = 0
    /\ inodes = 0
    /\ logFile = File(<<1>>)
    /\ gzFile = [i \in 1..MaxDepth |-> NoFile]
    /\ InitRuns

SpecArgs == InitArgs /\ [][Next]_vars

\* The scheduler starts the tool again once the previous run is over: a new
\* process, main from its first line, on the log directory the earlier runs left.
Relaunch(p) ==
    /\ pc[p] = "done"
    /\ runs < MaxRuns
    /\ runs' = runs + 1
    /\ pc' = [pc EXCEPT ![p] = "start"]
    /\ ret' = [ret EXCEPT ![p] = 0]
    /\ tryLock' = [tryLock EXCEPT ![p] = "none"]
    /\ phase' = [phase EXCEPT ![p] = 1]
    /\ index' = [index EXCEPT ![p] = 1]
    /\ rotations' = [rotations EXCEPT ![p] = 0]
    /\ rotateErr' = [rotateErr EXCEPT ![p] = FALSE]
    /\ rotatedFrom' = [rotatedFrom EXCEPT ![p] =
                          [log |-> NoFile, gz |-> [i \in 1..MaxDepth |-> NoFile]]]
    /\ created' = [created EXCEPT ![p] = FALSE]
    /\ invoked' = [invoked EXCEPT ![p] = <<>>]
    /\ args' = [args EXCEPT ![p] = <<>>]
    /\ failedAt' = [failedAt EXCEPT ![p] = 0]
    /\ completed' = [completed EXCEPT ![p] = FALSE]
    /\ panicked' = [panicked EXCEPT ![p] = FALSE]
    /\ deferred' = [deferred EXCEPT ![p] = <<>>]
    /\ exitCode' = [exitCode EXCEPT ![p] = -1]
    /\ removeErr' = [removeErr EXCEPT ![p] = FALSE]
    /\ logPos' = [logPos EXCEPT ![p] = 0]
    /\ emitted' = [emitted EXCEPT ![p] = <<Running>>]
    /\ mailBody' = [mailBody EXCEPT ![p] =
                       <<logFMessage(Running.w, Running.message).mail>>]
    /\ console' = [console EXCEPT ![p] =
                      <<logFMessage(Running.w, Running.message).line>>]
    /\ UNCHANGED <<cmdBackup, cmdPrune, cmdCheck, configFile, globalLogFileCount,
                   lockDirOk, sendMail, staleLock, launched, fh, locked, lockFile,
                   inodes, unlocks, logVars, mailSent, calls, debugFlag, toolLines, diskFaults,
                   lockFaults,
                   printed,
                   gzVars>>

\* Runs of one configuration, one after the other, on a log directory that
\* holds a log and generations of earlier runs, gaps allowed, and on which
\* any file operation can fail; the lock file is always removed.
InitHistory ==
    /\ InitProcs
    /\ cmdBackup = TRUE
    /\ cmdPrune = FALSE
    /\ cmdCheck = FALSE
    /\ configFile = Config(1, 0, 0, 0)
    /\ globalLogFileCount \in 1..MaxDepth
    /\ lockDirOk = TRUE
    /\ sendMail = FALSE
    /\ debugFlag = FALSE
    /\ toolLines \in {0, MaxOut}
    /\ diskFaults = TRUE
    /\ lockFaults = FALSE
    /\ launched = {1}
    /\ staleLock = FALSE
    /\ lockFile = 0
    /\ inodes = 0
    /\ logFile \in {NoFile, File(<<1>>)}
    /\ gzFile \in Generations(globalLogFileCount, {<<>>})
    /\ InitRuns

NextHistory == Next \/ Relaunch(1)

SpecHistory == InitHistory /\ [][NextHistory]_vars

\* ------------------------------------------------------------------ properties
Attempted == {p \in Procs : tryLock[p] # "none"}
Winners == {p \in Procs : tryLock[p] = "locked"}
Left(p) == pc[p] \in {"exit", "done"}
NoGenerations(gz) == \A i \in 1..MaxDepth : ~gz[i].exists

\* The operations performBackup is to run, phase by phase, in declared order.
RECURSIVE PlannedFrom(_)
PlannedFrom(ph) ==
    IF ph > 4 THEN <<>>
    ELSE (IF Selected(ph)
          THEN [i \in 1..Len(Info(configFile, ph)) |-> <<ph, i>>]
          ELSE <<>>) \o PlannedFrom(ph + 1)

\* C1: at no time do two processes both hold the run lock (each between its
\* successful TryLock and its own Unlock).
C1_MutualExclusion ==
    \A p, q \in Procs : p # q => ~(locked[p] /\ locked[q])

\* C2: a process whose TryLock finds the lock held by another process leaves
\* at once with code 200, and in that run nothing is rotated, no log file is
\* created, no external invocation is launched and nothing is released.
C2_ContentionFailsFast ==
    \A p \in Procs :
        tryLock[p] = "busy" =>
            /\ Left(p)
            /\ ret[p] = 200
            /\ pc[p] = "done" => exitCode[p] = 200
            /\ rotations[p] = 0
            /\ ~created[p]
            /\ invoked[p] = <<>>
            /\ deferred[p] = <<>>

\* A process has ended with the contention outcome while the holder is still
\* in its run.
C2_Witness ==
    \E p, q \in Procs :
        /\ tryLock[p] = "busy" /\ pc[p] = "done"
        /\ locked[q] /\ pc[q] = "run"

\* C3, as claimed: every run that acquired the lock has, when it leaves
\* obtainLock, run Unlock and then Remove and no longer owns the OS lock,
\* whatever ended performBackup (a rotation error, a log-file creation error,
\* a failed external invocation, a panic, or full success); and once every
\* started run is over, the lock file is absent.
C3_GuaranteedRelease ==
    /\ \A p \in Procs :
           (tryLock[p] = "locked" /\ Left(p)) =>
               (deferred[p] = <<"Unlock", "Remove">> /\ ~locked[p])
    /\ ((\A p \in launched : pc[p] = "done") /\ Winners # {}) => lockFile = 0

\* C3, amended: every run that acquired the lock has, when it leaves
\* obtainLock, run Unlock and then Remove and no longer owns the OS lock,
\* whatever ended performBackup; and once every started run is over, the lock
\* file is absent unless an os.Remove of a run that acquired the lock has
\* failed, which the run ignores.
C3_ReleaseAttempted ==
    /\ \A p \in Procs :
           (tryLock[p] = "locked" /\ Left(p)) =>
               (deferred[p] = <<"Unlock", "Remove">> /\ ~locked[p])
    /\ ((\A p \in launched : pc[p] = "done") /\ Winners # {}) =>
           (lockFile = 0 \/ \E p \in Winners : removeErr[p])

\* Two runs have acquired the lock one after the other and are over, one
\* ended by a rotation error and one by a panic; both have run Unlock and
\* Remove, no removal failed and the lock file is absent.
C3_Witness ==
    \E p, q \in Procs :
        /\ \A r \in launched : pc[r] = "done"
        /\ tryLock[p] = "locked" /\ rotateErr[p] /\ ret[p] = 500
        /\ tryLock[q] = "locked" /\ panicked[q]
        /\ deferred[p] = <<"Unlock", "Remove">>
        /\ deferred[q] = <<"Unlock", "Remove">>
        /\ ~locked[p] /\ ~locked[q]
        /\ ~removeErr[p] /\ ~removeErr[q]
        /\ lockFile = 0

\* C4: if the k-th external invocation of a run fails, the run makes exactly k
\* invocations, the k-th being the operation the loops stopped at, emits no
\* completion summary, and performBackup returns failure.
C4_FailFast ==
    \A p \in Procs :
        failedAt[p] > 0 =>
            /\ Len(invoked[p]) = failedAt[p]
            /\ invoked[p][failedAt[p]] = <<phase[p], index[p]>>
            /\ ~completed[p]
            /\ ret[p] = 500
            /\ pc[p] \in {"unlock", "remove", "exit", "done"}

\* Two backup storages and a selected prune phase left to run; the second
\* invocation failed, the run is over.
C4_Witness ==
    /\ Len(configFile.backupInfo) = 2
    /\ failedAt[1] = 2
    /\ invoked[1] = <<(<<1, 1>>), (<<1, 2>>)>>
    /\ Len(configFile.pruneInfo) > 0 /\ cmdPrune
    /\ pc[1] = "done"

\* C5: a run that opened its log and in which no external invocation failed
\* has, when it is over, invoked every operation of every selected phase once,
\* in phase order and declared order, and ended Succeeded.
C5_OrderAndCompleteness ==
    \A p \in Procs :
        (pc[p] = "done" /\ created[p] /\ failedAt[p] = 0) =>
            /\ invoked[p] = PlannedFrom(1)
            /\ completed[p]
            /\ ret[p] = 0

\* C6: a run whose pipeline succeeded exits with 0, a run in which an external
\* invocation failed exits with 1, and 500 is never the process's exit code.
C6_ExitCodes ==
    \A p \in Procs :
        pc[p] = "done" =>
            /\ completed[p] => exitCode[p] = 0
            /\ failedAt[p] > 0 => exitCode[p] = 1
            /\ exitCode[p] # 500

\* C7: with a usable lock directory and as long as no process has released,
\* of the processes whose TryLock has returned exactly one got the lock and
\* every other one got the contention outcome, code 200.
C7_ExactlyOne ==
    (lockDirOk /\ unlocks = 0 /\ Attempted # {}) =>
        /\ Cardinality(Winners) = 1
        /\ \A p \in Attempted \ Winners : tryLock[p] = "busy" /\ ret[p] = 200

\* Both processes have attempted, nobody has released: one holds, one lost.
C7_Witness ==
    /\ unlocks = 0
    /\ tryLock[1] = "busy"
    /\ tryLock[2] = "locked" /\ locked[2]

\* C8: when rotateLogFiles found name.log with content B and no generation and
\* returned no error, name.log.1.gz decompresses to exactly B, and the log the
\* caller then creates is a fresh one.
C8_RoundTrip ==
    \A p \in Procs :
        (/\ rotations[p] = 1 /\ ~rotateErr[p]
         /\ rotatedFrom[p].log.exists
         /\ NoGenerations(rotatedFrom[p].gz)) =>
            /\ pc[p] = "create" =>
                   /\ gzFile[1].exists
                   /\ Decompress(gzFile[1].data) =
                          [ok |-> TRUE, data |-> rotatedFrom[p].log.data]
            /\ (pc[p] = "run" /\ invoked[p] = <<>>) =>
                   logFile = Println(File(<<>>), 0, <<"begin">>)

\* C9: no rotation leaves a compressed generation with an index above N-1.
C9_BoundedHistory ==
    \A i \in 1..MaxDepth : gzFile[i].exists => i <= globalLogFileCount - 1

\* C10: when rotateLogFiles fails, the run neither creates nor truncates
\* name.log, executes no external invocation and ends as a failure.
C10_RotationFailureAborts ==
    \A p \in Procs :
        rotateErr[p] =>
            /\ ~created[p]
            /\ logFile = rotatedFrom[p].log
            /\ invoked[p] = <<>>
            /\ ~completed[p]
            /\ ret[p] = 500
            /\ pc[p] \in {"unlock", "remove", "exit", "done"}
            /\ pc[p] = "done" => exitCode[p] # 0

\* A write failed mid-stream, leaving a cut name.log.1.gz, and the run is over.
C10_Witness ==
    /\ rotateErr[1]
    /\ pc[1] = "done"
    /\ gzFile[1].exists /\ ~Decompress(gzFile[1].data).ok
    /\ logFile.exists

\* C11: within a run the steps come in the order lock acquired, rotation
\* (once), creation of the fresh log, external invocations, lock release; the
\* rotation and each of its file operations, the creation, every line
\* written to the log and every invocation, from its launch to its return,
\* are steps of a process that owns the OS lock before and after the step, and the first release step
\* comes from a process that owns it and, in a completed run, after one
\* rotation and the creation.
Rotating == {"rename", "open", "gzcreate", "read", "write", "gzname", "gznul", "gzclose",
             "gztrailer"}
Piping == {"begin", "run", "narrate", "exec", "wait", "summary"}

C11_StepOrder ==
    \A p \in Procs :
        /\ rotations'[p] # rotations[p] =>
               /\ locked[p] /\ locked'[p]
               /\ rotations[p] = 0 /\ ~created[p] /\ invoked[p] = <<>>
        /\ created'[p] # created[p] =>
               /\ locked[p] /\ locked'[p]
               /\ rotations[p] = 1 /\ ~rotateErr[p] /\ invoked[p] = <<>>
        /\ invoked'[p] # invoked[p] =>
               /\ locked[p] /\ locked'[p]
               /\ rotations[p] = 1 /\ created[p] /\ deferred[p] = <<>>
        /\ (pc[p] \in Rotating /\ <<pc'[p], kick'[p]>> # <<pc[p], kick[p]>>) =>
               /\ locked[p] /\ locked'[p]
               /\ rotations[p] = 1 /\ ~created[p] /\ invoked[p] = <<>>
        /\ (pc[p] \in Piping /\ <<pc'[p], printed'[p]>> # <<pc[p], printed[p]>>) =>
               /\ locked[p] /\ locked'[p]
               /\ rotations[p] = 1 /\ created[p] /\ deferred[p] = <<>>
        /\ (deferred[p] = <<>> /\ deferred'[p] # <<>>) =>
               /\ locked[p] /\ ~locked'[p]
               /\ completed[p] => (rotations[p] = 1 /\ created[p])

C11_RunStepOrdering == [][C11_StepOrder]_vars

\* A run that acquired the lock has completed: one rotation of an existing
\* log, the new log created, two operations invoked, the lock released.
C11_Witness ==
    \E p \in Procs :
        /\ pc[p] = "done" /\ completed[p]
        /\ tryLock[p] = "locked"
        /\ rotations[p] = 1 /\ rotatedFrom[p].log.exists
        /\ created[p] /\ Len(invoked[p]) = 2
        /\ deferred[p] = <<"Unlock", "Remove">>

\* The whitespace-delimited tokens of s: its maximal runs of characters that
\* are neither a space nor a tab.
Whitespace == {" ", "\t"}

RECURSIVE Fields(_)
Fields(s) ==
    IF s = <<>> THEN <<>>
    ELSE IF Head(s) \in Whitespace THEN Fields(Tail(s))
    ELSE LET n == CHOOSE n \in 1..Len(s) :
                      /\ \A h \in 1..n : s[h] \notin Whitespace
                      /\ (n < Len(s) => s[n + 1] \in Whitespace)
         IN <<SubSeq(s, 1, n)>> \o Fields(SubSeq(s, n + 1, Len(s)))

\* C12: the argument vector of the Prune operation on storage s with keep
\* string k is "prune", "-all", "-storage", s followed by the
\* whitespace-delimited tokens of k, in order.
C12_PruneArguments ==
    \A p \in Procs :
        \A j \in 1..Len(invoked[p]) :
            invoked[p][j][1] = 3 =>
                LET e == configFile.pruneInfo[invoked[p][j][2]] IN
                args[p][j] = <<"prune", "-all", "-storage", e.storage>>
                                 \o Fields(e.keep)

\* C13: in a run started with -m, once the pipeline has ended, Succeeded or
\* Failed, and the process is over, the accumulated buffer has been handed to
\* the mail collaborator exactly once.
C13_MailDelivery ==
    \A p \in Procs :
        (/\ sendMail
         /\ pc[p] = "done"
         /\ completed[p] \/ ret[p] = 500) =>
            mailSent[p] = 1

\* C14: every message emitted through the log sink is in the mail buffer
\* exactly once, in emission order; one emitted on the normal console path is
\* stored behind the time-of-day prefix, one emitted on the error console path
\* is stored without the prefix.
C14_MailBufferFormat ==
    \A p \in Procs :
        /\ Len(mailBody[p]) = Len(emitted[p])
        /\ \A j \in 1..Len(emitted[p]) :
               mailBody[p][j] = IF emitted[p][j].w = "stdout"
                                THEN <<TimeOfDay, emitted[p][j].message>>
                                ELSE <<emitted[p][j].message>>

\* What the rotation found at index i: the generation i, or for index 0 the
\* uncompressed log in the compressed form it is stored in.
FoundAt(from, i) ==
    IF i > 0 THEN from.gz[i]
    ELSE IF from.log.exists THEN File(Compress(from.log.data)) ELSE NoFile

\* C15: after a rotateLogFiles that returned no error, for every index i in
\* 0..N-2 generation i+1 holds exactly what index i held before, nothing where
\* index i held nothing, so that the old generation N-1 is gone; whatever N
\* and whatever generations, gaps included, the rotation started from.
C15_RotationShift ==
    (calls >= 1 /\ pc[1] = "create") =>
        \A i \in 0..(globalLogFileCount - 2) :
            gzFile[i + 1] = FoundAt(rotatedFrom[1], i)

\* name.log.1.gz decompresses, trailer included, to the content d.
RecoverableFromGz(d) ==
    /\ gzFile[1].exists
    /\ Decompress(gzFile[1].data) = [ok |-> TRUE, data |-> d]

\* C16: whatever I/O step of the rotation fails, the content the rotation
\* found in name.log is at every later moment of the run still in name.log or
\* fully recoverable from name.log.1.gz; in particular name.log has been
\* created afresh only with name.log.1.gz complete.
C16_NoSilentLoss ==
    \A p \in Procs :
        (rotations[p] = 1 /\ rotatedFrom[p].log.exists) =>
            /\ logFile = rotatedFrom[p].log
                   \/ RecoverableFromGz(rotatedFrom[p].log.data)
            /\ created[p] => RecoverableFromGz(rotatedFrom[p].log.data)

\* The narrations among the emitted messages, and the storage an operation
\* works on (for a copy, the storage it copies from).
IsNarration(m) ==
    m.message[1] \in {"Backing up to storage", "Copying from storage",
                      "Pruning storage", "Checking storage"}

OperationStorage(op) ==
    CASE op[1] = 1 -> configFile.backupInfo[op[2]].name
      [] op[1] = 2 -> configFile.copyInfo[op[2]].from
      [] op[1] = 3 -> configFile.pruneInfo[op[2]].storage
      [] OTHER -> configFile.checkInfo[op[2]].storage

\* C17: every external invocation has its own narration, emitted just before
\* it (one narration is ahead of the invocations only between the narration
\* and the call of Executor), and that narration names the storage of the
\* same operation; the i-th Check narration names the storage of the i-th
\* Check operation.
C17_NarrationNamesStorage ==
    \A p \in Procs :
        LET said == SelectSeq(emitted[p], IsNarration) IN
        /\ Len(said) = Len(invoked[p]) + (IF pc[p] = "exec" THEN 1 ELSE 0)
        /\ \A j \in 1..Len(invoked[p]) :
               said[j].message[2] = OperationStorage(invoked[p][j])

\* Process p's deferred os.Remove unlinks the lock file.
Removes(p) == pc[p] = "remove" /\ pc'[p] = "exit" /\ lockFile # 0 /\ lockFile' = 0

\* C18: a releasing process never removes a lock file on which another
\* process holds the OS lock at that moment.
C18_RemovesOnlyUnlockedFile ==
    [][\A p \in Procs :
           Removes(p) =>
               ~\E q \in Procs \ {p} : locked[q] /\ fh[q] = lockFile]_vars

\* C19: a lock file left behind with no OS lock on it does not block: when
\* the run starts with a stale lock file, as soon as a TryLock has returned one
\* process has acquired the lock.  A process whose acquire failed lost to a
\* process that did acquire, and runs neither Unlock nor Remove.
C19_StaleLockHarmless ==
    /\ (staleLock /\ lockDirOk /\ Attempted # {}) => Winners # {}
    /\ \A p \in Procs :
           tryLock[p] = "busy" =>
               /\ deferred[p] = <<>>
               /\ \E q \in Procs \ {p} : tryLock[q] = "locked"

\* The run started with a stale lock file; one process acquired the lock on
\* it and is in its run, the other failed to acquire and is over.
C19_Witness ==
    \E p, q \in Procs :
        /\ staleLock
        /\ tryLock[p] = "locked" /\ locked[p] /\ fh[p] = 1 /\ pc[p] = "run"
        /\ lockFile = 1
        /\ tryLock[q] = "busy" /\ pc[q] = "done"

\* C20, as claimed: after any sequence of runs and rotations, of two existing
\* generations the one with the lower index holds the log of a strictly more
\* recent run.
C20_StrictlyOrderedByAge ==
    \A i, j \in 1..MaxDepth :
        (i < j /\ gzRun[i].exists /\ gzRun[j].exists) =>
            gzRun[i].data > gzRun[j].data

\* C20, amended: after any sequence of runs and rotations, of two existing
\* generations the one with the lower index never holds the log of an older
\* run; two generations can hold the log of the same run.
C20_OrderedByAge ==
    \A i, j \in 1..MaxDepth :
        (i < j /\ gzRun[i].exists /\ gzRun[j].exists) =>
            gzRun[i].data >= gzRun[j].data

\* After a run that rotated and then ended without opening its log, the next
\* run's rotation has compressed the same name.log again: generations 1 and 2
\* hold the log of one run.
C20_Witness ==
    /\ runs = 2
    /\ rotations[1] = 1 /\ ~rotateErr[1]
    /\ globalLogFileCount = 3
    /\ gzRun[1].exists /\ gzRun[2].exists
    /\ gzRun[1].data = gzRun[2].data

====
